---- MODULE Spec2Model ----
(***************************************************************************)
(* State-machine model of the dotbot plugin Brew (src/brew.py).            *)
(*                                                                         *)
(* A string that the code inspects character by character (a package       *)
(* reference) is a sequence of one-character strings.  A child process is  *)
(* a record of the command, the three stream arguments it was spawned      *)
(* with and its exit code; the exit code is the environment's choice.      *)
(* procs and log are the observable traces of one directive invocation.    *)
(***************************************************************************)
EXTENDS Integers, Sequences, FiniteSets, TLC

VARIABLES
    _defaults,      \* self._defaults, set by __init__
    directive,      \* the directive being handled ("" before the first)
    data,           \* the directive's configuration value
    user_defaults,  \* self._context.defaults().get(directive, {})
    defaults,       \* the merged options passed to the handler
    pc,             \* position of the (single) thread of control
    i,              \* 1-based position of the loops over data
    result,         \* the handlers' local `result`
    run,            \* value returned by the last _install call
    install_format, \* _install's arguments ...
    check_installed_format,
    pkg,
    pkg_name,       \* ... and locals
    isInstalled,
    procs,          \* child processes spawned so far, in spawn order
    log,            \* lines logged so far, in order
    calls,          \* history: the _install calls so far, with their results
    mark,           \* history: Len(procs) and Len(log) when _install was entered
    ret             \* value returned by handle (meaningful when pc = "done")

vars == <<_defaults, directive, data, user_defaults, defaults, pc, i, result,
          run, install_format, check_installed_format, pkg, pkg_name,
          isInstalled, procs, log, calls, mark, ret>>

-----------------------------------------------------------------------------
(* Bounds and input domains *)

\* longest list of targets given to a list directive
MaxTargets == 3

\* longest list of targets tried with every options override
MaxOptTargets == 1

\* longest free-text package reference explored by SpecName
MaxLen == 4

\* exit status of a child process: success and a representative failure
ExitCodes == {0, 1}

NL == "\n"

Chars == {"a", "b", "/", " ", NL}

Keys == {"stdin", "stdout", "stderr"}

Directives == {"install-brew", "brew", "cask", "tap", "brewfile"}

\* the empty mapping {}
EmptyMap == <<>>

\* every options override: any subset of the three keys, any booleans
Overrides == UNION {[ks -> BOOLEAN] : ks \in SUBSET Keys}

\* the overrides tried with the longer lists: none, and a partial one
BatchOverrides == {EmptyMap, [stdout |-> TRUE, stderr |-> FALSE]}

\* representative targets: blank, namespace/name flags, and a text the
\* name pattern does not match (SpecName explores every short text)
TargetSet == {<<>>, <<"b", "/", "a", " ", "b">>, <<NL>>}

RECURSIVE SeqsUpTo(_, _)
SeqsUpTo(S, n) ==
    IF n = 0 THEN {<<>>}
    ELSE LET shorter == SeqsUpTo(S, n - 1)
         IN  shorter \cup {Append(s, x) : s \in {t \in shorter : Len(t) = n - 1}, x \in S}

\* the (data, override) pairs handle is invoked with, per directive
Inputs(d) ==
    IF d = "install-brew"
    THEN BOOLEAN \X Overrides
    ELSE (SeqsUpTo(TargetSet, MaxTargets) \X BatchOverrides)
         \cup (SeqsUpTo(TargetSet, MaxOptTargets) \X Overrides)

\* free-text package references, for the name extraction
FreeInputs == {<<t>> : t \in SeqsUpTo(Chars, MaxLen)} \X {EmptyMap}

-----------------------------------------------------------------------------
(* __init__ *)

BuiltinDefaults ==
    [d \in Directives |->
        IF d \in {"brewfile", "install-brew"}
        THEN [stdin |-> TRUE, stderr |-> TRUE, stdout |-> TRUE]
        ELSE [stdin |-> FALSE, stderr |-> FALSE, stdout |-> FALSE]]

Init ==
    /\ _defaults = BuiltinDefaults
    /\ directive = ""
    /\ data = <<>>
    /\ user_defaults = EmptyMap
    /\ defaults = EmptyMap
    /\ pc = "idle"
    /\ i = 1
    /\ result = TRUE
    /\ run = FALSE
    /\ install_format = ""
    /\ check_installed_format = ""
    /\ pkg = <<>>
    /\ pkg_name = <<>>
    /\ isInstalled = 0
    /\ procs = <<>>
    /\ log = <<>>
    /\ calls = <<>>
    /\ mark = [procs |-> 0, log |-> 0]
    /\ ret = FALSE

-----------------------------------------------------------------------------
(* helpers *)

\* a self._log.<level>(msg) line; arg is the value formatted into msg
Line(level, msg, arg) == [level |-> level, msg |-> msg, arg |-> arg]

\* str.format / f-string: the template and the value substituted into it
Format(fmt, arg) == [fmt |-> fmt, arg |-> arg]

\* faulty variant of the merge: the built-in default wins over the override
MergeDefaultsLocalWins(local_defaults, user) ==
    [k \in (DOMAIN local_defaults) \cup (DOMAIN user) |->
        IF k \in DOMAIN local_defaults THEN local_defaults[k] ELSE user[k]]

\* {**local_defaults, **user_defaults}
MergeDefaults(local_defaults, user) ==
    [k \in (DOMAIN local_defaults) \cup (DOMAIN user) |->
        IF k \in DOMAIN user THEN user[k] ELSE local_defaults[k]]

\* the process _invoke_shell_command spawns, exiting with rc
_invoke_shell_command(cmd, opts, rc) ==
    [cmd    |-> cmd,
     stdin  |-> IF opts["stdin"] THEN "True" ELSE "devnull",
     stdout |-> IF opts["stdout"] THEN "True" ELSE "devnull",
     stderr |-> IF opts["stderr"] THEN "True" ELSE "devnull",
     rc     |-> rc]

-----------------------------------------------------------------------------
(* handle *)

EntryOf(d) ==
    CASE d = "install-brew" -> "_install_brew"
      [] d = "brew"         -> "_brew"
      [] d = "cask"         -> "_cask"
      [] d = "tap"          -> "_tap"
      [] d = "brewfile"     -> "_brewfile"

handle(d, dat, user) ==
    /\ pc = "idle"
    /\ directive' = d
    /\ data' = dat
    /\ user_defaults' = user
    /\ defaults' = MergeDefaults(_defaults[d], user)
    /\ pc' = EntryOf(d)
    /\ i' = 1
    /\ result' = TRUE
    /\ procs' = <<>>
    /\ log' = <<>>
    /\ calls' = <<>>
    /\ mark' = [procs |-> 0, log |-> 0]
    /\ ret' = FALSE
    /\ UNCHANGED <<_defaults, run, install_format, check_installed_format,
                   pkg, pkg_name, isInstalled>>

\* handle returns ret to the host, which may dispatch the next directive;
\* nothing of the finished invocation but self._defaults is kept
Return ==
    /\ pc = "done"
    /\ pc' = "idle"
    /\ directive' = ""
    /\ data' = <<>>
    /\ user_defaults' = EmptyMap
    /\ defaults' = EmptyMap
    /\ i' = 1
    /\ result' = TRUE
    /\ run' = FALSE
    /\ install_format' = ""
    /\ check_installed_format' = ""
    /\ pkg' = <<>>
    /\ pkg_name' = <<>>
    /\ isInstalled' = 0
    /\ procs' = <<>>
    /\ log' = <<>>
    /\ calls' = <<>>
    /\ mark' = [procs |-> 0, log |-> 0]
    /\ ret' = FALSE
    /\ UNCHANGED _defaults


-----------------------------------------------------------------------------
(* frames *)

hostVars == <<_defaults, directive, data, user_defaults, defaults>>

installVars == <<install_format, check_installed_format, pkg, pkg_name,
                 isInstalled, run, calls, mark>>

-----------------------------------------------------------------------------
(* _tap *)

\* faulty variant of _tap: the loop is left at the first failed tap
_tap_break ==
    /\ pc = "_tap"
    /\ IF i <= Len(data)
       THEN \E rc \in ExitCodes :
              LET tap == data[i]
                  cmd == Format("brew tap {tap}", tap)
              IN  /\ procs' = Append(procs, _invoke_shell_command(cmd, defaults, rc))
                  /\ log' = log \o <<Line("info", "Tapping {tap}", tap)>>
                                \o (IF rc # 0
                                    THEN <<Line("warning", "Failed to tap [{tap}]", tap)>>
                                    ELSE <<>>)
                  /\ result' = (IF rc # 0 THEN FALSE ELSE result)
                  /\ i' = (IF rc # 0 THEN Len(data) + 1 ELSE i + 1)
                  /\ UNCHANGED <<pc, ret>>
       ELSE /\ ret' = result
            /\ pc' = "done"
            /\ UNCHANGED <<procs, log, result, i>>
    /\ UNCHANGED <<hostVars, installVars>>

_tap ==
    /\ pc = "_tap"
    /\ IF i <= Len(data)
       THEN \E rc \in ExitCodes :
              LET tap == data[i]
                  cmd == Format("brew tap {tap}", tap)
              IN  /\ procs' = Append(procs, _invoke_shell_command(cmd, defaults, rc))
                  /\ log' = log \o <<Line("info", "Tapping {tap}", tap)>>
                                \o (IF rc # 0
                                    THEN <<Line("warning", "Failed to tap [{tap}]", tap)>>
                                    ELSE <<>>)
                  /\ result' = (IF rc # 0 THEN FALSE ELSE result)
                  /\ i' = i + 1
                  /\ UNCHANGED <<pc, ret>>
       ELSE /\ ret' = result
            /\ pc' = "done"
            /\ UNCHANGED <<procs, log, result, i>>
    /\ UNCHANGED <<hostVars, installVars>>

-----------------------------------------------------------------------------
(* _brewfile *)

_brewfile ==
    /\ pc = "_brewfile"
    /\ IF i <= Len(data)
       THEN \E rc \in ExitCodes :
              LET file == data[i]
                  cmd == Format("/opt/homebrew/bin/brew bundle --verbose --file={file}", file)
              IN  /\ procs' = Append(procs, _invoke_shell_command(cmd, defaults, rc))
                  /\ log' = log \o <<Line("info", "Installing from file {file}", file)>>
                                \o (IF 0 # rc
                                    THEN <<Line("warning", "Failed to install file [{file}]", file)>>
                                    ELSE <<>>)
                  /\ result' = (IF 0 # rc THEN FALSE ELSE result)
                  /\ i' = i + 1
                  /\ UNCHANGED <<pc, ret>>
       ELSE /\ ret' = result
            /\ pc' = "done"
            /\ UNCHANGED <<procs, log, result, i>>
    /\ UNCHANGED <<hostVars, installVars>>

-----------------------------------------------------------------------------
(* the call of _install and its return *)

\* self._install(install, check, target, defaults): control enters _install
CallInstall(install, check, target) ==
    /\ install_format' = install
    /\ check_installed_format' = check
    /\ pkg' = target
    /\ mark' = [procs |-> Len(procs), log |-> Len(log)]
    /\ pc' = "_install"
    /\ UNCHANGED <<pkg_name, isInstalled, run, calls, procs, log>>

\* `return value` in _install, having spawned and logged up to procs2, log2
ReturnInstall(value, procs2, log2) ==
    /\ run' = value
    /\ procs' = procs2
    /\ log' = log2
    /\ calls' = Append(calls,
                   [install_format |-> install_format,
                    check_installed_format |-> check_installed_format,
                    pkg   |-> pkg,
                    run   |-> value,
                    procs |-> SubSeq(procs2, mark.procs + 1, Len(procs2)),
                    log   |-> SubSeq(log2, mark.log + 1, Len(log2))])
    /\ pc' = "_install_ret"

-----------------------------------------------------------------------------
(* _brew *)

BrewInstall == "/opt/homebrew/bin/brew install {pkg}"

BrewCheck ==
    "test -d /opt/homebrew/Cellar/{pkg_name} || /opt/homebrew/bin/brew ls --versions {pkg_name}"

\* faulty variant of _brew: the summary is logged whatever the result
_brew_always_summary ==
    /\ pc = "_brew"
    /\ IF i <= Len(data)
       THEN /\ CallInstall(BrewInstall, BrewCheck, data[i])
            /\ UNCHANGED <<ret, result, i>>
       ELSE /\ log' = Append(log, Line("info", "All brew packages have been installed", <<>>))
            /\ ret' = result
            /\ pc' = "done"
            /\ UNCHANGED <<procs, result, i, installVars>>
    /\ UNCHANGED hostVars

\* the loop head: the next call of _install, or the summary and the return
_brew ==
    /\ pc = "_brew"
    /\ IF i <= Len(data)
       THEN /\ CallInstall(BrewInstall, BrewCheck, data[i])
            /\ UNCHANGED <<ret, result, i>>
       ELSE /\ log' = (IF result
                       THEN Append(log, Line("info", "All brew packages have been installed", <<>>))
                       ELSE log)
            /\ ret' = result
            /\ pc' = "done"
            /\ UNCHANGED <<procs, result, i, installVars>>
    /\ UNCHANGED hostVars

\* faulty variant of _brew_run: the loop is left at the first failed package
_brew_run_break ==
    /\ pc = "_install_ret"
    /\ directive = "brew"
    /\ log' = (IF ~run
               THEN Append(log, Line("error", "Some packages were not installed", <<>>))
               ELSE log)
    /\ result' = (IF ~run THEN FALSE ELSE result)
    /\ i' = (IF ~run THEN Len(data) + 1 ELSE i + 1)
    /\ pc' = "_brew"
    /\ UNCHANGED <<hostVars, installVars, procs, ret>>

\* the loop body after the call: `if not run`
_brew_run ==
    /\ pc = "_install_ret"
    /\ directive = "brew"
    /\ log' = (IF ~run
               THEN Append(log, Line("error", "Some packages were not installed", <<>>))
               ELSE log)
    /\ result' = (IF ~run THEN FALSE ELSE result)
    /\ i' = i + 1
    /\ pc' = "_brew"
    /\ UNCHANGED <<hostVars, installVars, procs, ret>>

-----------------------------------------------------------------------------
(* _cask *)

CaskInstall == "/opt/homebrew/bin/brew install --cask {pkg}"

CaskCheck ==
    "test -d /opt/homebrew/Caskroom/{pkg_name} || /opt/homebrew/bin/brew ls --cask --versions {pkg_name}"

_cask ==
    /\ pc = "_cask"
    /\ IF i <= Len(data)
       THEN /\ CallInstall(CaskInstall, CaskCheck, data[i])
            /\ UNCHANGED <<ret, result, i>>
       ELSE /\ log' = (IF result
                       THEN Append(log, Line("info", "All cask packages have been installed", <<>>))
                       ELSE log)
            /\ ret' = result
            /\ pc' = "done"
            /\ UNCHANGED <<procs, result, i, installVars>>
    /\ UNCHANGED hostVars

_cask_run ==
    /\ pc = "_install_ret"
    /\ directive = "cask"
    /\ log' = (IF ~run
               THEN Append(log, Line("error", "Some packages were not installed", <<>>))
               ELSE log)
    /\ result' = (IF ~run THEN FALSE ELSE result)
    /\ i' = i + 1
    /\ pc' = "_cask"
    /\ UNCHANGED <<hostVars, installVars, procs, ret>>

-----------------------------------------------------------------------------
(* re.search(r"^(?:.+/)?(.+?)(?: .+)?$", pkg)                              *)
(* A position is the number of characters consumed.  `.` matches every     *)
(* character but the newline; `$` matches at the end and before a newline  *)
(* that ends the text.                                                     *)

\* `.` matches each of s[a..b]
Dots(s, a, b) == \A k \in a .. b : s[k] # NL

\* `$` at position k
AtEnd(s, k) == k = Len(s) \/ (k = Len(s) - 1 /\ s[Len(s)] = NL)

\* `(?: .+)?$` from position k
FlagsMatch(s, k) ==
    \/ AtEnd(s, k)
    \/ /\ k + 2 <= Len(s)
       /\ s[k + 1] = " "
       /\ \E m \in (k + 2) .. Len(s) : Dots(s, k + 2, m) /\ AtEnd(s, m)

\* the positions where `(.+?)`, begun at position st, can end with the
\* rest of the pattern matching
NameEnds(s, st) ==
    {e \in (st + 1) .. Len(s) : Dots(s, st + 1, e) /\ FlagsMatch(s, e)}

\* the positions where `(?:.+/)` can end with the rest of the pattern matching
TapEnds(s) ==
    {e \in 2 .. Len(s) : s[e] = "/" /\ Dots(s, 1, e - 1) /\ NameEnds(s, e) # {}}

SetMax(S) == CHOOSE x \in S : \A y \in S : y <= x

SetMin(S) == CHOOSE x \in S : \A y \in S : x <= y

\* where group 1 begins: the greedy `(?:.+/)?` takes the longest prefix
\* that lets the rest match, and is skipped only if none does
NameStart(s) == IF TapEnds(s) # {} THEN SetMax(TapEnds(s)) ELSE 0

\* whether the search finds a match (pkg_parse is not None)
Matches(s) == NameEnds(s, NameStart(s)) # {}

\* pkg_parse[1]: the lazy `(.+?)` takes the shortest name that lets the
\* rest match
Group1(s) ==
    LET st == NameStart(s)
    IN  SubSeq(s, st + 1, SetMin(NameEnds(s, st)))

-----------------------------------------------------------------------------
(* _install *)

\* `not pkg`
IsBlank(p) == p = <<>>

\* faulty variant of the installed-check: spawned through
\* _invoke_shell_command, so with the caller's options
CheckProcessWithOptions(cmd, rc) == _invoke_shell_command(cmd, defaults, rc)

\* the process of the installed-check: subprocess.call with the three
\* streams given as devnull
CheckProcess(cmd, rc) ==
    [cmd |-> cmd, stdin |-> "devnull", stdout |-> "devnull", stderr |-> "devnull",
     rc |-> rc]

\* faulty variant of the test: inverted
AlreadyInstalledInverted(rc) == rc # 0

\* `isInstalled == 0`
AlreadyInstalled(rc) == rc = 0

\* faulty variant of the result: the exit code of the install is ignored
InstallAlwaysSucceeded(rc) == TRUE

\* `0 == result`
InstallSucceeded(rc) == 0 = rc

\* faulty variant of _install: no validation of pkg before the check command
_install_unguarded ==
    /\ pc = "_install"
    /\ \E rc \in ExitCodes :
          /\ pkg_name' = pkg
          /\ procs' = Append(procs, CheckProcess(Format(check_installed_format, pkg), rc))
          /\ isInstalled' = rc
          /\ pc' = "_install_checked"
          /\ UNCHANGED <<run, calls, log>>
    /\ UNCHANGED <<hostVars, install_format, check_installed_format, pkg, mark,
                   i, result, ret>>

\* from the entry to the exit of the check command
_install ==
    /\ pc = "_install"
    /\ IF IsBlank(pkg)
       THEN /\ ReturnInstall(FALSE, procs,
                   Append(log, Line("error", "Cannot process blank package name", <<>>)))
            /\ UNCHANGED <<pkg_name, isInstalled>>
       ELSE IF ~Matches(pkg)
       THEN /\ ReturnInstall(FALSE, procs,
                   Append(log, Line("error", "Package name {pkg} doesn't work for some reason", pkg)))
            /\ UNCHANGED <<pkg_name, isInstalled>>
       ELSE \E rc \in ExitCodes :
              /\ pkg_name' = Group1(pkg)
              /\ procs' = Append(procs,
                             CheckProcess(Format(check_installed_format, Group1(pkg)), rc))
              /\ isInstalled' = rc
              /\ pc' = "_install_checked"
              /\ UNCHANGED <<run, calls, log>>
    /\ UNCHANGED <<hostVars, install_format, check_installed_format, pkg, mark,
                   i, result, ret>>

\* after the check command: already installed, or the install command
_install_checked ==
    /\ pc = "_install_checked"
    /\ IF AlreadyInstalled(isInstalled)
       THEN ReturnInstall(TRUE, procs,
               Append(log, Line("debug", "{pkg} already installed", pkg)))
       ELSE \E rc \in ExitCodes :
              ReturnInstall(InstallSucceeded(rc),
                  Append(procs,
                      _invoke_shell_command(Format(install_format, pkg), defaults, rc)),
                  log \o <<Line("info", "Installing {pkg}", pkg)>>
                      \o (IF 0 # rc
                          THEN <<Line("warning", "Failed to install [{pkg}]", <<>>)>>
                          ELSE <<>>))
    /\ UNCHANGED <<hostVars, install_format, check_installed_format, pkg, mark,
                   pkg_name, isInstalled, i, result, ret>>

-----------------------------------------------------------------------------
(* _install_brew *)

BootstrapInstall ==
    "/bin/bash -c \"$(curl -fsSL https://raw.githubusercontent.com/Homebrew/install/HEAD/install.sh)\""

BootstrapCheck == "command -v /opt/homebrew/bin/brew"

BootstrapPkg == <<"b", "r", "e", "w">>

\* the error message (its backquotes written as apostrophes)
DisabledMessage == "Why would you even put 'install-brew: false' in there?"

\* faulty variant of the test: false is accepted like true
NeverDisabled(val) == FALSE

\* `not val`
Disabled(val) == ~val

_install_brew ==
    /\ pc = "_install_brew"
    /\ IF Disabled(data)
       THEN /\ log' = Append(log, Line("error", DisabledMessage, <<>>))
            /\ ret' = FALSE
            /\ pc' = "done"
            /\ UNCHANGED <<procs, installVars>>
       ELSE /\ CallInstall(BootstrapInstall, BootstrapCheck, BootstrapPkg)
            /\ UNCHANGED ret
    /\ UNCHANGED <<hostVars, i, result>>

\* `return self._install(...)`
_install_brew_return ==
    /\ pc = "_install_ret"
    /\ directive = "install-brew"
    /\ ret' = run
    /\ pc' = "done"
    /\ UNCHANGED <<hostVars, installVars, procs, log, i, result>>

-----------------------------------------------------------------------------
(* specifications *)

Dispatch == \E d \in Directives : \E in \in Inputs(d) : handle(d, in[1], in[2])

Next ==
    \/ Dispatch
    \/ _tap
    \/ _brewfile
    \/ _brew
    \/ _brew_run
    \/ _cask
    \/ _cask_run
    \/ _install
    \/ _install_checked
    \/ _install_brew
    \/ _install_brew_return
    \/ Return

Spec == Init /\ [][Next]_vars

\* the package directives given one free-text package reference
DispatchName ==
    \E d \in {"brew", "cask"} : \E in \in FreeInputs : handle(d, in[1], in[2])

NextName ==
    \/ DispatchName
    \/ _brew
    \/ _brew_run
    \/ _cask
    \/ _cask_run
    \/ _install
    \/ _install_checked
    \/ Return

SpecName == Init /\ [][NextName]_vars

-----------------------------------------------------------------------------
(* Properties *)

Streams(p) == <<p.stdin, p.stdout, p.stderr>>

Discarded == <<"devnull", "devnull", "devnull">>

\* a call of _install whose target is non-empty and matches the name pattern
WellFormedCall(c) == c.pkg # <<>> /\ Matches(c.pkg)

HasLine(lines, level) == \E k \in DOMAIN lines : lines[k].level = level

\* C1: a call of _install on a non-empty target that the name pattern
\* matches spawns the check command first; it spawns nothing else when the
\* check exited 0, and exactly the install command after it when the check
\* exited non-zero.
C1_InstallIffCheckFailed ==
    \A k \in DOMAIN calls :
        LET c == calls[k]
        IN  WellFormedCall(c) =>
              /\ Len(c.procs) \in {1, 2}
              /\ c.procs[1].cmd.fmt = c.check_installed_format
              /\ (c.procs[1].rc = 0 => Len(c.procs) = 1)
              /\ (c.procs[1].rc # 0 =>
                    /\ Len(c.procs) = 2
                    /\ c.procs[2].cmd = Format(c.install_format, c.pkg))

\* one batch holding a call that stopped after a successful check and a call
\* that went on to install
C1_Witness ==
    \E k1, k2 \in DOMAIN calls :
        /\ WellFormedCall(calls[k1]) /\ WellFormedCall(calls[k2])
        /\ Len(calls[k1].procs) = 1 /\ calls[k1].procs[1].rc = 0
        /\ Len(calls[k2].procs) = 2 /\ calls[k2].procs[1].rc # 0

\* C2: a call of _install on a non-empty target that the name pattern
\* matches returns true exactly when the check command or the install
\* command exited 0; when the install command exited non-zero it returns
\* false and has logged a warning.
C2_ResultIffCheckOrInstallOk ==
    \A k \in DOMAIN calls :
        LET c == calls[k]
            checkOk   == Len(c.procs) >= 1 /\ c.procs[1].rc = 0
            installOk == Len(c.procs) >= 2 /\ c.procs[2].rc = 0
            installKo == Len(c.procs) >= 2 /\ c.procs[2].rc # 0
        IN  WellFormedCall(c) =>
              /\ c.run <=> (checkOk \/ installOk)
              /\ installKo => (~c.run /\ HasLine(c.log, "warning"))

\* one batch holding the three outcomes: present, installed, install failed
C2_Witness ==
    \E k1, k2, k3 \in DOMAIN calls :
        /\ WellFormedCall(calls[k1]) /\ calls[k1].run /\ Len(calls[k1].procs) = 1
        /\ WellFormedCall(calls[k2]) /\ calls[k2].run /\ Len(calls[k2].procs) = 2
        /\ WellFormedCall(calls[k3]) /\ ~calls[k3].run /\ Len(calls[k3].procs) = 2
        /\ HasLine(calls[k3].log, "warning")

\* C3: a call of _install with an empty target logs an error, returns
\* false and spawns no child process, and no process of the invocation
\* carries a command made from an empty target.
C3_BlankTargetSpawnsNothing ==
    /\ \A k \in DOMAIN calls :
          LET c == calls[k]
          IN  c.pkg = <<>> =>
                /\ ~c.run
                /\ c.procs = <<>>
                /\ HasLine(c.log, "error")
    /\ (pc \in {"_install", "_install_checked", "_install_ret"} /\ pkg = <<>>) =>
          Len(procs) = mark.procs

\* a blank target was processed by cask, with all three streams switched on
C3_Witness ==
    /\ directive = "cask"
    /\ user_defaults = [stdin |-> TRUE, stdout |-> TRUE, stderr |-> TRUE]
    /\ \E k \in DOMAIN calls : calls[k].pkg = <<>> /\ ~calls[k].run

\* C4: brew and cask call _install once per target, in list order, also
\* after a target that failed, and return true exactly when every call
\* returned true.
C4_BatchCallsEveryTargetInOrder ==
    directive \in {"brew", "cask"} =>
        /\ Len(calls) <= Len(data)
        /\ \A k \in DOMAIN calls : calls[k].pkg = data[k]
        /\ pc \in {"_brew", "_cask"} => Len(calls) = i - 1
        /\ pc = "done" =>
              /\ Len(calls) = Len(data)
              /\ ret <=> \A k \in DOMAIN calls : calls[k].run

\* [A, B, C] where B fails and A, C succeed: C was attempted, result false
C4_Witness ==
    /\ directive \in {"brew", "cask"}
    /\ pc = "done"
    /\ Len(data) = 3
    /\ Len(calls) = 3
    /\ calls[1].run /\ ~calls[2].run /\ calls[3].run
    /\ ~ret

\* the target has the form [namespace/]name[ flags]: name is a non-empty
\* token without '/' and blanks, the namespace is non-empty text without
\* blanks, the flags are non-empty text on the same line
IsToken(t) == t # <<>> /\ \A k \in DOMAIN t : t[k] \notin {"/", " ", NL}

\* where the name begins and ends, when p has the form
FormBounds(p) ==
    {<<a, b>> \in (1 .. Len(p)) \X (1 .. Len(p)) :
        /\ a <= b
        /\ IsToken(SubSeq(p, a, b))
        /\ \/ a = 1
           \/ /\ a >= 3
              /\ p[a - 1] = "/"
              /\ \A k \in 1 .. (a - 2) : p[k] \notin {" ", NL}
        /\ \/ b = Len(p)
           \/ /\ b + 2 <= Len(p)
              /\ p[b + 1] = " "
              /\ \A k \in (b + 2) .. Len(p) : p[k] # NL}

\* C5: for every target of the form [namespace/]name[ flags], the name
\* substituted into the check command is the middle token name.
C5_NameIsMiddleToken ==
    pc = "_install_checked" =>
        \A ab \in FormBounds(pkg) :
            /\ pkg_name = SubSeq(pkg, ab[1], ab[2])
            /\ procs[Len(procs)].cmd = Format(check_installed_format, SubSeq(pkg, ab[1], ab[2]))

\* C6: install-brew given false logs an error, returns false and spawns no
\* child process, whatever the options.
C6_BootstrapDisabledSpawnsNothing ==
    (directive = "install-brew" /\ ~data) =>
        /\ procs = <<>>
        /\ calls = <<>>
        /\ pc \in {"_install_brew", "done"}
        /\ pc = "done" => (~ret /\ log = <<Line("error", DisabledMessage, <<>>)>>)

\* the disabled bootstrap has returned, with all three streams switched on
C6_Witness ==
    /\ directive = "install-brew"
    /\ ~data
    /\ pc = "done"
    /\ user_defaults = [stdin |-> TRUE, stdout |-> TRUE, stderr |-> TRUE]

CheckFormats == {BrewCheck, CaskCheck, BootstrapCheck}

InstallFormats == {BrewInstall, CaskInstall, BootstrapInstall}

\* C7: every check command runs with stdin, stdout and stderr discarded,
\* whatever the caller's options; the options govern the install command's
\* streams only.
C7_CheckStreamsDiscarded ==
    \A k \in DOMAIN procs :
        /\ procs[k].cmd.fmt \in CheckFormats => Streams(procs[k]) = Discarded
        /\ procs[k].cmd.fmt \in InstallFormats =>
              Streams(procs[k]) =
                  <<IF defaults["stdin"] THEN "True" ELSE "devnull",
                    IF defaults["stdout"] THEN "True" ELSE "devnull",
                    IF defaults["stderr"] THEN "True" ELSE "devnull">>

\* the options switch all three streams on; the check ran discarded and the
\* install ran with the three streams on
C7_Witness ==
    /\ user_defaults = [stdin |-> TRUE, stdout |-> TRUE, stderr |-> TRUE]
    /\ Len(procs) = 2
    /\ procs[1].cmd.fmt \in CheckFormats
    /\ Streams(procs[1]) = Discarded
    /\ procs[2].cmd.fmt \in InstallFormats
    /\ Streams(procs[2]) = <<"True", "True", "True">>

\* C8: the options a handler receives are, key by key, the override's
\* value where the override has the key and the built-in default of the
\* directive otherwise; self._defaults stays as __init__ set it.
C8_OverrideWinsKeyByKey ==
    /\ _defaults = BuiltinDefaults
    /\ pc # "idle" =>
          /\ DOMAIN defaults = Keys
          /\ \A key \in Keys :
                defaults[key] = IF key \in DOMAIN user_defaults
                                THEN user_defaults[key]
                                ELSE BuiltinDefaults[directive][key]

\* a partial override of brewfile: stdout is overridden against its
\* default, stdin and stderr keep the built-in default
C8_Witness ==
    /\ pc = "done"
    /\ directive = "brewfile"
    /\ user_defaults = [stdout |-> FALSE]
    /\ defaults = [stdin |-> TRUE, stdout |-> FALSE, stderr |-> TRUE]
    /\ Len(procs) = 1

ListFormat(d) ==
    IF d = "tap" THEN "brew tap {tap}"
    ELSE "/opt/homebrew/bin/brew bundle --verbose --file={file}"

\* C9: tap and brewfile issue one command per entry, in list order, with
\* no check before it, also after an entry whose command failed, and return
\* true exactly when every command exited 0.
C9_OneCommandPerEntry ==
    directive \in {"tap", "brewfile"} =>
        /\ calls = <<>>
        /\ Len(procs) <= Len(data)
        /\ \A k \in DOMAIN procs : procs[k].cmd = Format(ListFormat(directive), data[k])
        /\ pc \in {"_tap", "_brewfile"} => Len(procs) = i - 1
        /\ pc = "done" =>
              /\ Len(procs) = Len(data)
              /\ ret <=> \A k \in DOMAIN procs : procs[k].rc = 0

\* three entries, the second failed, the third was issued all the same
C9_Witness ==
    /\ directive \in {"tap", "brewfile"}
    /\ pc = "done"
    /\ Len(procs) = 3
    /\ procs[1].rc = 0 /\ procs[2].rc # 0 /\ procs[3].rc = 0
    /\ ~ret

SummaryLines ==
    {Line("info", "All brew packages have been installed", <<>>),
     Line("info", "All cask packages have been installed", <<>>),
     Line("error", "Some packages were not installed", <<>>)}

SuccessLine(d) ==
    IF d = "brew"
    THEN Line("info", "All brew packages have been installed", <<>>)
    ELSE Line("info", "All cask packages have been installed", <<>>)

\* C10 as stated: once brew or cask has returned, the log holds exactly one
\* summary line, and it is the last line, also when a target failed.
C10_OneSummaryAfterLastTarget ==
    (directive \in {"brew", "cask"} /\ pc = "done") =>
        /\ Cardinality({k \in DOMAIN log : log[k] \in SummaryLines}) = 1
        /\ log[Len(log)] \in SummaryLines

\* the lines brew and cask log for the calls cs: each call's own lines,
\* followed at once by the error line when the call returned false
RECURSIVE BatchLines(_)
BatchLines(cs) ==
    IF cs = <<>> THEN <<>>
    ELSE BatchLines(SubSeq(cs, 1, Len(cs) - 1))
           \o cs[Len(cs)].log
           \o (IF cs[Len(cs)].run
               THEN <<>>
               ELSE <<Line("error", "Some packages were not installed", <<>>)>>)

\* C10 amended: the success summary is logged, once and after the last
\* target, exactly when every target succeeded; the error line is logged
\* once per failed target, right after that target, and nothing follows
\* the last target when some target failed.
C10_SummaryOnlyOnSuccess ==
    (directive \in {"brew", "cask"} /\ pc = "done") =>
        log = BatchLines(calls)
                \o (IF \A k \in DOMAIN calls : calls[k].run
                    THEN <<SuccessLine(directive)>>
                    ELSE <<>>)

\* two targets failed and a present one followed: two error lines, the
\* last line is the third target's own, and no success summary
C10_Witness ==
    /\ directive \in {"brew", "cask"}
    /\ pc = "done"
    /\ Len(calls) = 3
    /\ ~calls[1].run /\ ~calls[2].run /\ calls[3].run
    /\ Cardinality({k \in DOMAIN log : log[k] \in SummaryLines}) = 2
    /\ log[Len(log)].level = "debug"

====
